---- MODULE Spec2Model ----
(***************************************************************************)
(* A model of pynance: the Bond entity (pynance/bond.py), the exchanges    *)
(* EuronextBrussels / EuronextParis (pynance/exchange.py), the broker      *)
(* KeytradeBroker (pynance/broker.py) and the Ticker (pynance/ticker.py).  *)
(*                                                                         *)
(* Representation.                                                         *)
(*  - The clock datetime.now() is the variable now, counted in ticks;      *)
(*    TicksPerDay ticks make one calendar day, so that timedelta.days      *)
(*    (a floor) is  delta \div TicksPerDay.                                *)
(*  - An optional value (pandas NaT / NaN, Python None) is the empty       *)
(*    tuple <<>>; a present value v is <<v>>.                              *)
(*  - A coupon is counted in hundredths of a percent (3.25% is 325); an    *)
(*    amount of money is counted in 1/(Hundred*Hundred) of a unit, which   *)
(*    keeps the after-tax coupon payment an integer.                       *)
(*  - The numeric value of a yield is not computed: it is kept as the      *)
(*    tuple of the arguments that determine it.                            *)
(***************************************************************************)
EXTENDS Integers, Sequences, FiniteSets, TLC

VARIABLES
    now,    \* datetime.now(), in ticks
    bond,   \* BondSpec: the result of the last Bond(...) call, <<>> or <<b>>
    ctor,   \* BondSpec: the last Bond(...) call: arguments, clock, outcome
    ytm,    \* BondSpec: the last bond.yield_to_maturity() call and its outcome
    kind,   \* Spec: the class of the source object
    bonds,  \* Spec: self.bonds (Exchange) / self.lisbonds_bonds (Broker)
    call,   \* Spec: the last method call on the source and its outcome
    ticker, \* TickerSpec: the Ticker object: its attributes
    run     \* TickerSpec: the call in progress on the Ticker, or the last one

vars == <<now, bond, ctor, ytm, kind, bonds, call, ticker, run>>

(***************************************************************************)
(* Bounds of the model.                                                    *)
(***************************************************************************)
TicksPerDay == 2        \* clock resolution: ticks in one day
MaxTicks == 2           \* single ticks the clock may advance
MaxYears == 1           \* whole years the clock may advance
MaxRows == 2            \* rows in one scraped table
MaxBonds == 2           \* bonds a source may come to hold
MaxDepth == 3           \* nested calls before Python raises RecursionError

(***************************************************************************)
(* Program constants.                                                      *)
(***************************************************************************)
Hundred == 100              \* the "/ 100" of a percentage
DaysPerYear == 365          \* years_to_maturity
FaceValueUnits == 100       \* self.face_value
TaxRatePct == 30            \* self.tax_rate = 0.30
DefaultInflationPct == 2    \* inflation_rate = 0.02

None == <<>>
NaT == <<>>
Some(v) == <<v>>

Year == DaysPerYear * TicksPerDay
Start == Year               \* the clock reading at construction of the model
MoneyScale == Hundred * Hundred

\* int(x / d) of Python: truncation toward zero (d > 0)
Trunc(x, d) == IF x >= 0 THEN x \div d ELSE -((-x) \div d)

\* floor(x / d) (d > 0)
Floor(x, d) == x \div d

----------------------------------------------------------------------------
(***************************************************************************)
(* pynance/bond.py                                                         *)
(***************************************************************************)

\* Bond._validate_coupon raises ValueError
validate_coupon_never(coupon) == FALSE
validate_coupon_strict(coupon) == coupon <= 0
validate_coupon(coupon) == coupon < 0

\* Bond._validate_maturity raises ValueError.  A comparison with NaT is False.
validate_maturity(maturity, t) == maturity # NaT /\ maturity[1] < t

\* Bond.__init__: the outcome of Bond(...) at clock reading t
BondInit(name, coupon, maturity, price, isin, symbol, inflation_rate, volume, t) ==
    IF validate_coupon(coupon)
    THEN [status |-> "ValueError", raisedBy |-> "_validate_coupon", bond |-> <<>>]
    ELSE IF validate_maturity(maturity, t)
    THEN [status |-> "ValueError", raisedBy |-> "_validate_maturity", bond |-> <<>>]
    ELSE [status |-> "ok", raisedBy |-> "",
          bond |-> <<[symbol |-> symbol, name |-> name, isin |-> isin,
                      coupon |-> coupon, maturity |-> maturity, price |-> price,
                      face_value |-> FaceValueUnits, tax_rate |-> TaxRatePct,
                      inflation_rate |-> inflation_rate, volume |-> volume]>>]

\* Bond.time_to_maturity: (maturity - now).days, for a maturity that is not NaT
time_to_maturity(b, t) == (b.maturity[1] - t) \div TicksPerDay

\* int(self.years_to_maturity())
YearsInt(b, t) == Trunc(time_to_maturity(b, t), DaysPerYear)

\* coupon_payment = (coupon / 100) * (1 - tax_rate) * face_value, in 1/MoneyScale
coupon_payment(b) == (b.coupon * (Hundred - b.tax_rate) * b.face_value) \div Hundred

\* the loop  for year in range(0, years + 1): cash_flows.append(coupon_payment)
CashFlowsLoopShort(b, years) == [i \in 1..years |-> coupon_payment(b)]
CashFlowsLoop(b, years) == [i \in 1..(years + 1) |-> coupon_payment(b)]

RECURSIVE SumSeq(_)
SumSeq(s) == IF s = <<>> THEN 0 ELSE Head(s) + SumSeq(Tail(s))

\* cash_flows[-1] += self.face_value
AddFaceValue(cf, b) ==
    [i \in 1..Len(cf) |-> IF i = Len(cf) THEN cf[i] + b.face_value * MoneyScale ELSE cf[i]]

\* Bond.yield_to_maturity at clock reading t: the step it ends in and what it
\* has computed by then
yield_to_maturity(b, t) ==
    IF b.maturity = NaT
    THEN \* NaT.days is nan, int(nan) raises
         [status |-> "ValueError", step |-> "years", cash_flows |-> <<>>,
          total |-> 0, value |-> <<>>]
    ELSE
    LET years == YearsInt(b, t)
        loop  == CashFlowsLoop(b, years)
    IN  IF loop = <<>>
        THEN [status |-> "IndexError", step |-> "cash_flows", cash_flows |-> loop,
              total |-> 0, value |-> <<>>]
        ELSE
        LET cf    == AddFaceValue(loop, b)
            total == SumSeq(cf)
            days  == time_to_maturity(b, t)
        IN  IF b.price = 0 \/ days = 0
            THEN [status |-> "ZeroDivisionError", step |-> "nominal_ytm",
                  cash_flows |-> cf, total |-> total, value |-> <<>>]
            ELSE IF b.inflation_rate = None
            THEN [status |-> "TypeError", step |-> "real_ytm",
                  cash_flows |-> cf, total |-> total, value |-> <<>>]
            ELSE [status |-> "ok", step |-> "return",
                  cash_flows |-> cf, total |-> total,
                  value |-> <<[nominal |-> <<total, b.price, days>>,
                               real |-> <<total, b.price, days, b.inflation_rate[1]>>]>>]

----------------------------------------------------------------------------
(***************************************************************************)
(* BondSpec: one Bond built by a caller and queried as the clock advances  *)
(***************************************************************************)
CouponInputs == {-Hundred, 0, 5 * Hundred}
MaturityInputs(t) ==
    {NaT, Some(t - TicksPerDay), Some(t), Some(t + 1),
     Some(t + (DaysPerYear + 1) * TicksPerDay)}
PriceInputs == {0, Hundred}
InflationInputs == {None, Some(DefaultInflationPct)}

NoCall == [op |-> "none"]
NoTicker == [built |-> FALSE]

ClockOk(t) == /\ t >= Start
              /\ (t - Start) % Year <= MaxTicks
              /\ (t - Start) \div Year <= MaxYears

\* the clock advances by one tick or by one year
Tick ==
    /\ \E d \in {1, Year} : /\ ClockOk(now + d)
                            /\ now' = now + d
    /\ UNCHANGED <<bond, ctor, ytm, kind, bonds, call, ticker, run>>

\* b = Bond("B", coupon, maturity, price, inflation_rate=inflation_rate)
Construct ==
    /\ \E coupon \in CouponInputs, maturity \in MaturityInputs(now),
          price \in PriceInputs, inflation_rate \in InflationInputs :
         LET r == BondInit("B", coupon, maturity, price, "", None, inflation_rate, 0, now)
         IN  /\ bond' = r.bond
             /\ ctor' = [op |-> "Bond", coupon |-> coupon, maturity |-> maturity,
                         price |-> price, inflation_rate |-> inflation_rate,
                         at |-> now, status |-> r.status, raisedBy |-> r.raisedBy]
    /\ ytm' = NoCall
    /\ UNCHANGED <<now, kind, bonds, call, ticker, run>>

\* b.yield_to_maturity()
CallYield ==
    /\ bond # <<>>
    /\ ytm' = [op |-> "yield_to_maturity", at |-> now] @@ yield_to_maturity(bond[1], now)
    /\ UNCHANGED <<now, bond, ctor, kind, bonds, call, ticker, run>>

BondInit0 ==
    /\ now = Start
    /\ bond = <<>>
    /\ ctor = NoCall
    /\ ytm = NoCall
    /\ kind = "none"
    /\ bonds = <<>>
    /\ call = NoCall
    /\ ticker = NoTicker
    /\ run = NoCall

BondNext == Tick \/ Construct \/ CallYield

BondSpec == BondInit0 /\ [][BondNext]_vars

----------------------------------------------------------------------------
(***************************************************************************)
(* pynance/exchange.py and pynance/broker.py                               *)
(*                                                                         *)
(* A raw row of a source's table is [coupon, maturity, price, isin]:       *)
(*   coupon    the text the coupon is read from ('Name' of an exchange,    *)
(*             'Coupon' of Keytrade);                                      *)
(*   maturity  the date text ('Maturity' / 'Duree de vie'): Dash for "-",  *)
(*             <<d>> for the date of day d in the format %d/%m/%Y;         *)
(*   price     the price text ('Last' / 'Ask');                            *)
(*   isin      'ISIN'.                                                     *)
(***************************************************************************)
Exchanges == {"EuronextBrussels", "EuronextParis"}
Sources == Exchanges \cup {"KeytradeBroker"}

Dash == <<>>
NaN == <<>>
StartDay == Start \div TicksPerDay
FarDay == StartDay + DaysPerYear + 1

\* df['Name'].str.extract(r'(\d+[.,]?\d*)%')[0].str.replace(',', '.').astype(float)
ExtractCoupon(text) ==
    CASE text = "3%"    -> Some(3 * Hundred)
      [] text = "3,25%" -> Some(3 * Hundred + 25)
      [] text = "-1%"   -> Some(Hundred)
      [] OTHER          -> NaN

\* float(row['Coupon'].replace("%","").strip(" ")): raises ValueError unless ok
KeytradeCoupon(text) ==
    CASE text = "3%"  -> [ok |-> TRUE, v |-> 3 * Hundred]
      [] text = "-1%" -> [ok |-> TRUE, v |-> -Hundred]
      [] OTHER        -> [ok |-> FALSE, v |-> 0]

\* pd.to_datetime(col.replace("-", None), format='%d/%m/%Y', errors='coerce'):
\* midnight of the day, NaT for what is no date
ToDatetime(text) == IF text = Dash THEN NaT ELSE Some(text[1] * TicksPerDay)

\* float(row['Last']) / float(row['Ask']): raises ValueError unless ok
ParseFloat(text) ==
    CASE text = "0"   -> [ok |-> TRUE, v |-> 0]
      [] text = "100" -> [ok |-> TRUE, v |-> Hundred]
      [] OTHER        -> [ok |-> FALSE, v |-> 0]

Skipped == [status |-> "ok", raisedBy |-> "", bond |-> <<>>]
Raised(by) == [status |-> "ValueError", raisedBy |-> by, bond |-> <<>>]

\* the body of the loop of EuronextBrussels.scrape_bonds and of
\* EuronextParis.scrape_bonds (the same code) for one row, at clock reading t
ExchangeRow(row, t) ==
    LET coupon   == ExtractCoupon(row.coupon)
        maturity == ToDatetime(row.maturity)
    IN  IF coupon # NaN /\ maturity # NaT /\ maturity[1] > t /\ row.price # "-"
        THEN IF ~ParseFloat(row.price).ok
             THEN Raised("float")
             ELSE BondInit(row.coupon, coupon[1], maturity, ParseFloat(row.price).v,
                           row.isin, None, Some(DefaultInflationPct), 0, t)
        ELSE Skipped

\* the body of the loop of KeytradeBroker.scrape_bonds for one row
KeytradeRow(row, t) ==
    IF row.price # "-"
    THEN IF ~KeytradeCoupon(row.coupon).ok
         THEN Raised("float")
         ELSE IF ~ParseFloat(row.price).ok
         THEN Raised("float")
         ELSE BondInit("Emetteur", KeytradeCoupon(row.coupon).v, ToDatetime(row.maturity),
                       ParseFloat(row.price).v, row.isin, None,
                       Some(DefaultInflationPct), 0, t)
    ELSE Skipped

RowOutcome(k, row, t) ==
    IF k \in Exchanges THEN ExchangeRow(row, t) ELSE KeytradeRow(row, t)

\* for _, row in df.iterrows(): ...  An exception leaves the loop; the bonds
\* appended before it stay in the list.
RECURSIVE ScrapeLoop(_, _, _, _, _)
ScrapeLoop(k, rows, acc, outcomes, t) ==
    IF rows = <<>>
    THEN [status |-> "ok", bonds |-> acc, outcomes |-> outcomes]
    ELSE LET r == RowOutcome(k, Head(rows), t)
         IN  IF r.status # "ok"
             THEN [status |-> r.status, bonds |-> acc,
                   outcomes |-> Append(outcomes, r.status)]
             ELSE ScrapeLoop(k, Tail(rows), acc \o r.bond,
                             Append(outcomes, IF r.bond = <<>> THEN "skipped" ELSE "bond"),
                             t)

\* _fetch_data: requests.get and raise_for_status; a RequestException is
\* caught and None is returned
FetchDataRaises(outcome) ==
    IF outcome = "RequestException"
    THEN [status |-> "RequestException", response |-> FALSE]
    ELSE [status |-> "ok", response |-> TRUE]
FetchData(outcome) ==
    IF outcome = "RequestException"
    THEN [status |-> "ok", response |-> FALSE]
    ELSE [status |-> "ok", response |-> TRUE]

\* Exchange.scrape_bonds of EuronextBrussels / EuronextParis
ExchangeScrape(k, fetched, rows, bs, t) ==
    LET f == FetchData(fetched)
    IN  IF f.status # "ok"
        THEN [status |-> f.status, bonds |-> bs, outcomes |-> <<>>]
        ELSE IF f.response
        THEN ScrapeLoop(k, rows, bs, <<>>, t)
        ELSE [status |-> "ok", bonds |-> bs, outcomes |-> <<>>]

\* KeytradeBroker.scrape_bonds: the table is read from a local file
KeytradeScrape(rows, bs, t) == ScrapeLoop("KeytradeBroker", rows, bs, <<>>, t)

\* the record get_bond_dataframe appends for a bond with yields y
BondRecord(b, y) ==
    [Name |-> b.name, ISIN |-> b.isin, Coupon |-> b.coupon,
     Maturity |-> b.maturity[1] \div TicksPerDay, Price |-> b.price,
     NominalPct |-> <<"x100", y.nominal>>, RealPct |-> <<"x100", y.real>>,
     Nominal |-> y.nominal, Real |-> y.real, Volume |-> b.volume]

\* get_bond_dataframe: an exception of yield_to_maturity leaves the loop and
\* no DataFrame is returned
RECURSIVE DataframeLoop(_, _, _)
DataframeLoop(bs, acc, t) ==
    IF bs = <<>>
    THEN [status |-> "ok", table |-> acc]
    ELSE LET y == yield_to_maturity(Head(bs), t)
         IN  IF y.status # "ok"
             THEN [status |-> y.status, table |-> <<>>]
             ELSE DataframeLoop(Tail(bs), Append(acc, BondRecord(Head(bs), y.value[1])), t)

get_bond_dataframe(bs, t) == DataframeLoop(bs, <<>>, t)

----------------------------------------------------------------------------
(***************************************************************************)
(* Spec: one source object, scraped and exported as the clock advances     *)
(***************************************************************************)
GoodRow == [coupon |-> "3%", maturity |-> <<FarDay>>, price |-> "100", isin |-> "BE01"]

\* the good row and the rows that differ from it in one field
Rows ==
    {GoodRow}
    \cup {[GoodRow EXCEPT !.coupon = c] : c \in {"-"}}
    \cup {[GoodRow EXCEPT !.maturity = m] : m \in {Dash, <<StartDay>>}}
    \cup {[GoodRow EXCEPT !.price = p] : p \in {"-", "abc", "0"}}

RECURSIVE Tables(_)
Tables(n) ==
    IF n = 0 THEN {<<>>}
    ELSE Tables(n - 1) \cup {Append(tb, r) : tb \in Tables(n - 1), r \in Rows}

\* the tables a scrape may read: up to MaxRows rows
TableSet == Tables(MaxRows)

\* the tables a source holding n bonds may read: no scrape can take the list
\* beyond MaxBonds bonds
TablesFor(n) == {tb \in TableSet : n + Len(tb) <= MaxBonds}

\* the clock advances by one tick
Wait ==
    /\ now + 1 <= Start + MaxTicks
    /\ now' = now + 1
    /\ UNCHANGED <<bond, ctor, ytm, kind, bonds, call, ticker, run>>

\* exchange.scrape_bonds()
ScrapeExchange ==
    /\ kind \in Exchanges
    /\ \E fetched \in {"ok", "RequestException"} :
       \E rows \in IF fetched = "ok" THEN TablesFor(Len(bonds)) ELSE {<<>>} :
         LET r == ExchangeScrape(kind, fetched, rows, bonds, now)
         IN  /\ bonds' = r.bonds
             /\ call' = [op |-> "scrape_bonds", at |-> now, fetched |-> fetched,
                         rows |-> rows, before |-> bonds, status |-> r.status, outcomes |-> r.outcomes]
    /\ UNCHANGED <<now, bond, ctor, ytm, kind, ticker, run>>

\* broker.scrape_bonds()
ScrapeKeytrade ==
    /\ kind = "KeytradeBroker"
    /\ \E rows \in TablesFor(Len(bonds)) :
         LET r == KeytradeScrape(rows, bonds, now)
         IN  /\ bonds' = r.bonds
             /\ call' = [op |-> "scrape_bonds", at |-> now, fetched |-> "ok",
                         rows |-> rows, before |-> bonds, status |-> r.status, outcomes |-> r.outcomes]
    /\ UNCHANGED <<now, bond, ctor, ytm, kind, ticker, run>>

\* source.get_bond_dataframe()
Export ==
    /\ LET r == get_bond_dataframe(bonds, now)
       IN  call' = [op |-> "get_bond_dataframe", at |-> now, status |-> r.status, table |-> r.table]
    /\ UNCHANGED <<now, bond, ctor, ytm, kind, bonds, ticker, run>>

Init ==
    /\ now = Start
    /\ bond = <<>>
    /\ ctor = NoCall
    /\ ytm = NoCall
    /\ kind \in Sources
    /\ bonds = <<>>
    /\ call = NoCall
    /\ ticker = NoTicker
    /\ run = NoCall

Next == Wait \/ ScrapeExchange \/ ScrapeKeytrade \/ Export

Spec == Init /\ [][Next]_vars

----------------------------------------------------------------------------
(***************************************************************************)
(* pynance/ticker.py                                                       *)
(*                                                                         *)
(* The attributes of a Ticker are a function from attribute names to       *)
(* optional values; an attribute that was never set is not in its domain   *)
(* and reading it raises AttributeError.                                   *)
(***************************************************************************)

\* Ticker.__init__(symbol, name, yf_symbol, isin=None)
TickerInit(symbol, name, yf_symbol, isin) ==
    [symbol |-> Some(symbol), name |-> Some(name), yf_symbol |-> Some(yf_symbol),
     isin |-> isin, cash_flows |-> None, discount_rate |-> None,
     terminal_growth_rate |-> None, value |-> None, yf_data |-> None,
     yf_financials |-> None, yf_cashflow |-> None, yf_info |-> None]

\* ticker.<attr>
GetAttribute(attrs, attr) ==
    IF attr \in DOMAIN attrs
    THEN [status |-> "ok", value |-> attrs[attr]]
    ELSE [status |-> "AttributeError", value |-> None]

\* getattr(self, field, None)
GetAttrOrNone(attrs, field) == IF field \in DOMAIN attrs THEN attrs[field] ELSE None

\* setattr(self, key, value), which may add a new attribute
SetAttr(attrs, key, value) ==
    [a \in DOMAIN attrs \cup {key} |-> IF a = key THEN value ELSE attrs[a]]

\* missing_fields of Ticker.validate_data
MissingFields(attrs, required) == {f \in required : GetAttrOrNone(attrs, f) = None}

\* Ticker.get_data_from_yf: what Yahoo Finance answers is the outcome
\*   "full"      all the data are there
\*   "empty"     cashflow, financials and info are empty
\*   "raise"     yf.Ticker or ticker_data.cashflow raises
\*   "raise_fcf" the cash flow has no 'Free Cash Flow' row (KeyError)
\* An exception is caught and the cache yf_data is cleared.
FetchOutcomes == {"full", "empty", "raise", "raise_fcf"}

get_data_from_yf(attrs, outcome, reset) ==
    IF ~reset /\ attrs.yf_data # None
    THEN attrs
    ELSE
    LET a1 == SetAttr(attrs, "yf_data", Some("yf.Ticker"))
        a2 == SetAttr(SetAttr(SetAttr(a1, "yf_cashflow", Some("cashflow")),
                              "yf_financials", Some("financials")),
                      "yf_info", Some("info"))
        a3 == SetAttr(a2, "cash_flows", Some("Free Cash Flow"))
        a4 == SetAttr(SetAttr(a3, "net_income", Some("Net Income")),
                      "ebitda", Some("EBITDA"))
        e2 == SetAttr(SetAttr(SetAttr(a1, "yf_cashflow", None),
                              "yf_financials", None),
                      "yf_info", None)
        rates(a) == SetAttr(SetAttr(a, "discount_rate", Some("0.08")),
                            "terminal_growth_rate", Some("0.03"))
    IN  CASE outcome = "full"      -> rates(a4)
          [] outcome = "empty"     -> rates(e2)
          [] outcome = "raise"     -> SetAttr(a1, "yf_data", None)
          [] outcome = "raise_fcf" -> SetAttr(a2, "yf_data", None)

\* required_fields of Ticker.compute_dcf
DcfFields == {"cash_flows", "discount_rate", "terminal_growth_rate"}

----------------------------------------------------------------------------
(***************************************************************************)
(* TickerSpec: one Ticker, built with three positional arguments, then     *)
(* read, given user data and validated.  validate_data runs step by step:  *)
(* run.pc is "check" (at the test of missing_fields), "fetch" (at the call *)
(* of get_data_from_yf) or "done"; run.depth counts its nested calls.      *)
(***************************************************************************)
SymbolInputs == {"AAPL", "MSFT"}
ThirdInputs == {"175.0", "AAPL.BR"}
UserData == {<<"price", Some("180.0")>>, <<"cash_flows", Some("user")>>,
             <<"discount_rate", Some("0.1")>>}
RequiredInputs == {{"cash_flows"}, DcfFields}

Idle == IF run.op = "validate_data" THEN run.pc = "done" ELSE TRUE

\* ticker = Ticker(symbol, "Name", third)
NewTicker ==
    /\ Idle
    /\ \E symbol \in SymbolInputs, third \in ThirdInputs :
         /\ ticker' = [built |-> TRUE, args |-> <<symbol, "Name", third>>,
                       user |-> {}, attrs |-> TickerInit(symbol, "Name", third, None)]
         /\ run' = [op |-> "Ticker"]
    /\ UNCHANGED <<now, bond, ctor, ytm, kind, bonds, call>>

\* ticker.symbol, ticker.price
ReadAttribute ==
    /\ Idle
    /\ ticker.built
    /\ \E attr \in {"symbol", "price"} :
         run' = [op |-> "getattr", attr |-> attr] @@ GetAttribute(ticker.attrs, attr)
    /\ UNCHANGED <<now, bond, ctor, ytm, kind, bonds, call, ticker>>

\* ticker.set_user_data(key=value)
SetUserData ==
    /\ Idle
    /\ ticker.built
    /\ \E kv \in UserData :
         ticker' = [ticker EXCEPT !.attrs = SetAttr(@, kv[1], kv[2]),
                                  !.user = @ \cup {kv[1]}]
    /\ run' = [op |-> "set_user_data"]
    /\ UNCHANGED <<now, bond, ctor, ytm, kind, bonds, call>>

\* ticker.validate_data(required) is called, directly or by compute_dcf
CallValidate ==
    /\ Idle
    /\ ticker.built
    /\ \E caller \in {"validate_data", "compute_dcf"} :
       \E required \in IF caller = "compute_dcf" THEN {DcfFields} ELSE RequiredInputs :
         run' = [op |-> "validate_data", caller |-> caller, required |-> required,
                 pc |-> "check", depth |-> 1, fetches |-> 0, result |-> ""]
    /\ UNCHANGED <<now, bond, ctor, ytm, kind, bonds, call, ticker>>

\* the test of missing_fields and of the cache; on the return of the outermost
\* call compute_dcf stores the value or returns None
ValidateCheck ==
    /\ run.op = "validate_data"
    /\ run.pc = "check"
    /\ LET missing == MissingFields(ticker.attrs, run.required)
       IN  IF missing # {} /\ ticker.attrs.yf_data = None
           THEN /\ run' = [run EXCEPT !.pc = "fetch"]
                /\ UNCHANGED ticker
           ELSE /\ run' = [run EXCEPT !.pc = "done",
                                      !.result = IF missing # {} THEN "False" ELSE "True"]
                /\ ticker' = IF run.caller = "compute_dcf" /\ missing = {}
                             THEN [ticker EXCEPT !.attrs = SetAttr(@, "value", Some("dcf"))]
                             ELSE ticker
    /\ UNCHANGED <<now, bond, ctor, ytm, kind, bonds, call>>

\* self.get_data_from_yf() and the recursive call
\* return self.validate_data(required_fields); beyond MaxDepth nested calls
\* the call ends in RecursionError
ValidateFetch ==
    /\ run.op = "validate_data"
    /\ run.pc = "fetch"
    /\ \E outcome \in FetchOutcomes :
         ticker' = [ticker EXCEPT !.attrs = get_data_from_yf(@, outcome, FALSE)]
    /\ run' = IF run.depth + 1 > MaxDepth
              THEN [run EXCEPT !.fetches = @ + 1, !.pc = "done",
                               !.result = "RecursionError"]
              ELSE [run EXCEPT !.fetches = @ + 1, !.depth = @ + 1, !.pc = "check"]
    /\ UNCHANGED <<now, bond, ctor, ytm, kind, bonds, call>>

TickerInit0 ==
    /\ now = Start
    /\ bond = <<>>
    /\ ctor = NoCall
    /\ ytm = NoCall
    /\ kind = "none"
    /\ bonds = <<>>
    /\ call = NoCall
    /\ ticker = NoTicker
    /\ run = NoCall

TickerNext ==
    NewTicker \/ ReadAttribute \/ SetUserData \/ CallValidate \/ ValidateCheck
        \/ ValidateFetch

TickerSpec == TickerInit0 /\ [][TickerNext]_vars

----------------------------------------------------------------------------
(***************************************************************************)
(* Claims about the Bond entity, checked under BondSpec                    *)
(***************************************************************************)
Built == ctor.op = "Bond"
Yielded == ytm.op = "yield_to_maturity" /\ bond # <<>> /\ bond[1].maturity # NaT

\* C4 (as claimed): Bond construction fails with a validation error, and no
\* Bond is created, whenever maturity is not strictly after the current moment
\* at construction time, a maturity equal to the current moment included.
C4_NotAfterNowRejected ==
    (Built /\ ctor.maturity # NaT /\ ctor.maturity[1] <= ctor.at)
        => (ctor.status = "ValueError" /\ bond = <<>>)

\* C5 (as claimed): yield_to_maturity never returns a value for a Bond whose
\* price is 0 or whose inflation_rate is None: with price 0 it fails with a
\* division error, and with inflation_rate None it fails before the Fisher step
\* (real_ytm) is reached.  Stated for a Bond whose maturity has not passed.
C5_FailsBeforeFisher ==
    (Yielded /\ time_to_maturity(bond[1], ytm.at) >= 0
             /\ (bond[1].price = 0 \/ bond[1].inflation_rate = None))
        => /\ ytm.status # "ok"
           /\ bond[1].price = 0 => ytm.status = "ZeroDivisionError"
           /\ bond[1].inflation_rate = None => ytm.step # "real_ytm"

\* the cash-flow sequence cf has n entries, the first n - 1 equal to c and the
\* last equal to c + face value, and total is their sum n * c + face value
CashFlowShape(cf, total, n, c, face) ==
    /\ Len(cf) = n
    /\ n >= 1
    /\ \A i \in 1..(n - 1) : cf[i] = c
    /\ cf[n] = c + face
    /\ total = n * c + face
    /\ n = 1 => cf = <<c + face>>

\* C7 (as claimed): with Y = floor(YearsToMaturity()) the cash-flow sequence has
\* exactly Y + 1 entries, the first Y equal to c and the last to c + 100, and
\* total_cash_flows = (Y + 1) * c + 100.  Stated for a Bond built with a
\* maturity strictly in the future and queried less than a year after it.
C7_CashFlowsFloor ==
    (/\ Yielded
     /\ ctor.maturity[1] > ctor.at
     /\ time_to_maturity(bond[1], ytm.at) > -DaysPerYear) =>
        CashFlowShape(ytm.cash_flows, ytm.total,
                      Floor(time_to_maturity(bond[1], ytm.at), DaysPerYear) + 1,
                      coupon_payment(bond[1]), FaceValueUnits * MoneyScale)

\* C7 (amended): with Y = YearsToMaturity() truncated toward zero, which is
\* floor(YearsToMaturity()) whenever TimeToMaturity() >= 0, and
\* TimeToMaturity() > -365 days (so Y >= 0), the cash-flow sequence has exactly
\* Y + 1 entries, the first Y equal to c and the last to c + 100, and
\* total_cash_flows = (Y + 1) * c + 100; when Y = 0 it is the single entry
\* c + 100.
C7_CashFlowsTrunc ==
    (Yielded /\ time_to_maturity(bond[1], ytm.at) > -DaysPerYear) =>
        LET days == time_to_maturity(bond[1], ytm.at)
            Y    == IF days >= 0 THEN days \div DaysPerYear ELSE 0
        IN  CashFlowShape(ytm.cash_flows, ytm.total, Y + 1,
                          coupon_payment(bond[1]), FaceValueUnits * MoneyScale)

\* C7 witness: a yield computed over two cash flows (Y = 1) with a coupon
C7_Witness ==
    /\ Yielded
    /\ ytm.status = "ok"
    /\ bond[1].coupon > 0
    /\ Len(ytm.cash_flows) = 2
    /\ ytm.cash_flows[1] # ytm.cash_flows[2]

\* C8: for every coupon >= 0 and every maturity in the future, Bond
\* construction succeeds, and time_to_maturity read at the clock reading of the
\* construction is >= 0.
C8_ValidConstructs ==
    (Built /\ ctor.coupon >= 0 /\ ctor.maturity # NaT /\ ctor.maturity[1] > ctor.at)
        => /\ ctor.status = "ok"
           /\ bond # <<>>
           /\ now = ctor.at => time_to_maturity(bond[1], now) >= 0

\* C8 witness: a Bond with coupon 0 maturing one tick after its construction
C8_Witness ==
    /\ Built
    /\ ctor.coupon = 0
    /\ ctor.maturity = Some(ctor.at + 1)
    /\ ctor.status = "ok"
    /\ now = ctor.at
    /\ time_to_maturity(bond[1], now) = 0

\* C9: Bond construction with a coupon < 0 always fails with a validation
\* error and creates no Bond, whatever the other arguments are.
C9_NegativeCouponRejected ==
    (Built /\ ctor.coupon < 0) => (ctor.status = "ValueError" /\ bond = <<>>)

\* C9 witness: a negative coupon rejected although the maturity is valid
C9_Witness ==
    /\ Built
    /\ ctor.coupon < 0
    /\ ctor.maturity # NaT
    /\ ctor.maturity[1] > ctor.at
    /\ ctor.status = "ValueError"
    /\ ctor.raisedBy = "_validate_coupon"

----------------------------------------------------------------------------
(***************************************************************************)
(* Claims about the sources, checked under Spec                            *)
(***************************************************************************)
Scraped == call.op = "scrape_bonds" /\ call.fetched = "ok"

\* the bonds the last scrape_bonds call appended
Appended == SubSeq(bonds, Len(call.before) + 1, Len(bonds))

\* the skip conditions of a raw row at clock reading t: coupon missing,
\* maturity missing, maturity not strictly in the future, price "-"
SkipCondition(row, t) ==
    \/ row.coupon = "-"
    \/ row.maturity = Dash
    \/ row.maturity[1] * TicksPerDay <= t
    \/ row.price = "-"

\* C1 (as claimed): a row is filtered out, with no Bond produced and no error
\* raised, whenever its coupon is missing, its maturity is missing or not
\* strictly in the future, or its price is "-"; for every source's
\* scrape_bonds.
C1_SkippedSilently ==
    Scraped =>
        \A i \in 1..Len(call.outcomes) :
            SkipCondition(call.rows[i], call.at) => call.outcomes[i] = "skipped"

\* C2 (as claimed): when one row of a scrape fails, every other row of the
\* same scrape is still processed, and each later row that passes the filter
\* ends up as a Bond in the collection.
C2_OtherRowsProcessed ==
    (Scraped /\ \E i \in 1..Len(call.outcomes) : call.outcomes[i] = "ValueError") =>
        /\ Len(call.outcomes) = Len(call.rows)
        /\ \A j \in 1..Len(call.rows) :
             LET r == RowOutcome(kind, call.rows[j], call.at)
             IN  r.bond # <<>> =>
                    \E m \in 1..Len(Appended) : Appended[m] = r.bond[1]

YieldOk(b, t) == yield_to_maturity(b, t).status = "ok"

\* C3 (as claimed): get_bond_dataframe returns exactly the insertion-ordered
\* subsequence of the Bonds whose yield computation succeeds, one record per
\* Bond; a Bond whose yield fails is omitted and the export still completes,
\* so its length is the number of Bonds minus the number that fail.  Stated
\* for Bonds whose maturity lies at least a day ahead.
C3_ExportOmitsFailures ==
    (/\ call.op = "get_bond_dataframe"
     /\ \A i \in 1..Len(bonds) :
          bonds[i].maturity # NaT /\ time_to_maturity(bonds[i], call.at) > 0) =>
        LET good == SelectSeq(bonds, LAMBDA b : YieldOk(b, call.at))
            bad  == {i \in 1..Len(bonds) : ~YieldOk(bonds[i], call.at)}
        IN  /\ call.status = "ok"
            /\ Len(call.table) = Len(bonds) - Cardinality(bad)
            /\ call.table =
                 [i \in 1..Len(good) |->
                    BondRecord(good[i], yield_to_maturity(good[i], call.at).value[1])]

\* C6 (as claimed): after scrape_bonds the collection holds only the Bonds
\* built from the rows of the most recent scrape.  Stated for a scrape that
\* built at least one Bond.
C6_ScrapeRebuilds ==
    (Scraped /\ call.status = "ok" /\ Appended # <<>>) =>
        bonds = ScrapeLoop(kind, call.rows, <<>>, <<>>, call.at).bonds

\* C10: when the fetch for a source fails, scrape_bonds raises no error,
\* constructs no Bond and leaves the bond collection as it was before the call.
C10_FetchFailureIsZeroRows ==
    (call.op = "scrape_bonds" /\ call.fetched = "RequestException") =>
        /\ call.status = "ok"
        /\ call.outcomes = <<>>
        /\ bonds = call.before

\* C10 witness: a failed fetch on an exchange that already holds a Bond
C10_Witness ==
    /\ call.op = "scrape_bonds"
    /\ call.fetched = "RequestException"
    /\ kind \in Exchanges
    /\ call.before # <<>>
    /\ call.status = "ok"
    /\ bonds = call.before

----------------------------------------------------------------------------
(***************************************************************************)
(* Claims about the Ticker, checked under TickerSpec                       *)
(***************************************************************************)

\* C11 (as claimed): a Ticker constructed with the three positional arguments
\* (symbol, name, price) exposes ticker.symbol equal to the first argument and
\* ticker.price equal to the third argument.  Stated for a Ticker whose price
\* was not set through set_user_data.
C11_SymbolAndPrice ==
    (run.op = "getattr" /\ "price" \notin ticker.user) =>
        /\ run.status = "ok"
        /\ run.attr = "symbol" => run.value = Some(ticker.args[1])
        /\ run.attr = "price" => run.value = Some(ticker.args[3])

\* C12 (as claimed): validate_data triggers at most one Yahoo Finance fetch and
\* then returns True or False, also when the fetch raises and get_data_from_yf
\* resets the yf_data cache to None.
C12_AtMostOneFetch ==
    run.op = "validate_data" =>
        /\ run.fetches <= 1
        /\ run.pc = "done" => run.result \in {"True", "False"}

====
